---- MODULE Spec2Model ----
(***************************************************************************)
(* stats_rank: main.rs.  The program loads three identity files into an    *)
(* id -> name table, finds the level name, walks the stats directory,      *)
(* pushes (uuid, value) pairs into per-key buckets and prints every bucket *)
(* sorted (when numeric) and truncated to the limit.                       *)
(*                                                                         *)
(* Strings are sequences of characters, JSON values are tagged records.    *)
(* Files are read when the program reads them: each action draws the       *)
(* content of the file it opens from a bounded family.                     *)
(***************************************************************************)
EXTENDS Integers, Sequences, FiniteSets, TLC

VARIABLES pc, exact, inverse, show_uuid, limit, key,
          id_map, content, path, nread, seen, rank, out

vars == <<pc, exact, inverse, show_uuid, limit, key,
          id_map, content, path, nread, seen, rank, out>>

args == <<exact, inverse, show_uuid, limit, key>>

(***************************************************************************)
(* Bounds of the model.                                                    *)
(***************************************************************************)
\* directory entries the stats directory may hold
MaxFiles == 2
\* largest --limit tried
MaxLimit == 2
\* entries an identity file may hold
MaxEntries == 2

(***************************************************************************)
(* JSON values (crate json, JsonValue).                                    *)
(***************************************************************************)
Null == [t |-> "null", n |-> 0, s |-> <<>>, e |-> <<>>, a |-> <<>>]
Num(i) == [t |-> "num", n |-> i, s |-> <<>>, e |-> <<>>, a |-> <<>>]
Str(s) == [t |-> "str", n |-> 0, s |-> s, e |-> <<>>, a |-> <<>>]
\* an object: its entries <<key, value>> in insertion order, keys distinct
Obj(e) == [t |-> "obj", n |-> 0, s |-> <<>>, e |-> e, a |-> <<>>]
\* an array: its members in order
Arr(a) == [t |-> "arr", n |-> 0, s |-> <<>>, e |-> <<>>, a |-> a]
\* File::open / read_to_string failed
IoErr == [t |-> "ioerr", n |-> 0, s |-> <<>>, e |-> <<>>, a |-> <<>>]
\* json::parse failed
ParseErr == [t |-> "parseerr", n |-> 0, s |-> <<>>, e |-> <<>>, a |-> <<>>]
\* nothing read yet
NoFile == [t |-> "nofile", n |-> 0, s |-> <<>>, e |-> <<>>, a |-> <<>>]
\* a text file: its lines
Text(l) == [t |-> "text", n |-> 0, s |-> <<>>, e |-> <<>>, a |-> l]

IsNull(v) == v.t = "null"
IsNumber(v) == v.t = "num"
IsObject(v) == v.t = "obj"
IsErr(v) == v.t \in {"ioerr", "parseerr"}

\* v[k]: the value under k, null when v is no object or has no such key
Index(v, k) ==
  IF v.t = "obj" /\ \E i \in 1..Len(v.e) : v.e[i][1] = k
  THEN v.e[CHOOSE i \in 1..Len(v.e) : v.e[i][1] = k][2]
  ELSE Null

\* v.entries(): empty for anything but an object
Entries(v) == IF v.t = "obj" THEN v.e ELSE <<>>

\* v.members(): empty for anything but an array
Members(v) == IF v.t = "arr" THEN v.a ELSE <<>>

\* v.as_str(): Some(string) for a string, None otherwise
NoneOpt == [some |-> FALSE, v |-> <<>>]
SomeOpt(x) == [some |-> TRUE, v |-> x]
as_str(v) == IF v.t = "str" THEN SomeOpt(v.s) ELSE NoneOpt

\* v.as_f64(): Some(number) for a number, None otherwise
NoneNum == [some |-> FALSE, v |-> 0]
as_f64(v) == IF v.t = "num" THEN [some |-> TRUE, v |-> v.n] ELSE NoneNum

(***************************************************************************)
(* Strings.                                                                *)
(***************************************************************************)
LowerChar(c) == IF c = "J" THEN "j" ELSE IF c = "X" THEN "x" ELSE c
to_lowercase(s) == [i \in 1..Len(s) |-> LowerChar(s[i])]
contains(h, n) ==
  \E i \in 0..(Len(h) - Len(n)) : SubSeq(h, i + 1, i + Len(n)) = n

\* name.split('.').next(): the characters before the first dot
LeadingSegment(name) ==
  IF \E i \in 1..Len(name) : name[i] = "."
  THEN SubSeq(name, 1, (CHOOSE i \in 1..Len(name) :
                          /\ name[i] = "."
                          /\ \A j \in 1..(i - 1) : name[j] # ".") - 1)
  ELSE name

\* format!("{}.{}", cate, k)
CateKey(cate, k) == cate \o <<".">> \o k

EmptyMap == [x \in {} |-> <<>>]
Put(m, k, v) == [x \in DOMAIN m \cup {k} |-> IF x = k THEN v ELSE m[x]]

(***************************************************************************)
(* IdMap: the three loaders.  Each returns the map it leaves behind and    *)
(* whether it returned Ok; `?` returns at the first entry without a string *)
(* uuid or name, after the entries before it were inserted.                *)
(***************************************************************************)
UuidKey == <<"u", "u", "i", "d">>
NameKey == <<"n", "a", "m", "e">>

RECURSIVE WhitelistLoop(_, _)
WhitelistLoop(map, ms) ==
  IF ms = <<>> THEN [map |-> map, ok |-> TRUE]
  ELSE LET uuid == as_str(Index(Head(ms), UuidKey))
           name == as_str(Index(Head(ms), NameKey))
       IN IF ~uuid.some \/ ~name.some THEN [map |-> map, ok |-> FALSE]
          ELSE WhitelistLoop(IF uuid.v \in DOMAIN map THEN map
                             ELSE Put(map, uuid.v, name.v), Tail(ms))

load_whitelist(map, file) ==
  IF IsErr(file) THEN [map |-> map, ok |-> FALSE]
  ELSE WhitelistLoop(map, Members(file))

RECURSIVE NameCacheLoop(_, _)
NameCacheLoop(map, es) ==
  IF es = <<>> THEN [map |-> map, ok |-> TRUE]
  ELSE LET name == as_str(Head(es)[2])
       IN IF ~name.some THEN [map |-> map, ok |-> FALSE]
          ELSE NameCacheLoop(Put(map, Head(es)[1], name.v), Tail(es))

load_user_name_cache(map, file) ==
  IF IsErr(file) THEN [map |-> map, ok |-> FALSE]
  ELSE NameCacheLoop(map, Entries(file))

RECURSIVE UserNameLoop(_, _)
UserNameLoop(map, ms) ==
  IF ms = <<>> THEN [map |-> map, ok |-> TRUE]
  ELSE LET uuid == as_str(Index(Head(ms), UuidKey))
           name == as_str(Index(Head(ms), NameKey))
       IN IF ~uuid.some \/ ~name.some THEN [map |-> map, ok |-> FALSE]
          ELSE UserNameLoop(Put(map, uuid.v, name.v), Tail(ms))

load_user_name(map, file) ==
  IF IsErr(file) THEN [map |-> map, ok |-> FALSE]
  ELSE UserNameLoop(map, Members(file))

(***************************************************************************)
(* get_level_name.  A line of server.properties is a sequence of tokens;   *)
(* the first line starting with level-name gives the text between its      *)
(* first and second "=", or "world" when it has no "=".                    *)
(***************************************************************************)
LevelKey == "level-name"

\* x.split("=").skip(1).take(1).next()
SecondField(line) ==
  LET eqs == {i \in 1..Len(line) : line[i] = "="}
  IN IF eqs = {} THEN NoneOpt
     ELSE LET first == CHOOSE i \in eqs : \A j \in eqs : i <= j
              later == {i \in eqs : i > first}
              stop == IF later = {} THEN Len(line) + 1
                      ELSE CHOOSE i \in later : \A j \in later : i <= j
          IN SomeOpt(SubSeq(line, first + 1, stop - 1))

get_level_name(file) ==
  IF IsErr(file) THEN NoneOpt
  ELSE LET ls == file.a
           hits == {i \in 1..Len(ls) : Len(ls[i]) > 0 /\ ls[i][1] = LevelKey}
       IN IF hits = {} THEN NoneOpt
          ELSE LET i == CHOOSE h \in hits : \A g \in hits : h <= g
                   f == SecondField(ls[i])
               IN SomeOpt(IF f.some THEN f.v ELSE <<"world">>)

(***************************************************************************)
(* The files the identity loaders and get_level_name may find.             *)
(***************************************************************************)
\* the uuid of the files a.*; the files b.* have no name anywhere
Uuids == {<<"a">>}
Names == {<<"x">>, <<"y">>}

SeqsUpTo(S, n) == UNION {[1..m -> S] : m \in 0..n}

\* one member of whitelist.json / usercache.json: uuid and name, each a
\* string or missing
OptField(k, vals) == {<<>>} \cup {<< <<k, Str(v)>> >> : v \in vals}
EntryObjs == {Obj(u \o n) : u \in OptField(UuidKey, Uuids),
                            n \in OptField(NameKey, Names)}
ArrayFiles == {IoErr, ParseErr} \cup {Arr(ms) : ms \in SeqsUpTo(EntryObjs, MaxEntries)}

\* usernamecache.json: an object uuid -> name, a name a string or a number
CachePairs == {<<u, v>> : u \in Uuids, v \in {Str(n) : n \in Names} \cup {Num(0)}}
CacheFiles ==
  {IoErr, ParseErr} \cup
  {Obj(es) : es \in {q \in SeqsUpTo(CachePairs, MaxEntries) :
                       \A i, j \in 1..Len(q) : q[i][1] = q[j][1] => i = j}}

PropsFiles ==
  {IoErr} \cup
  {Text(ls) : ls \in {<<>>,
                      << <<"motd", "=", "w">> >>,
                      << <<LevelKey, "=", "w">> >>,
                      << <<LevelKey>> >>,
                      << <<"motd", "=", "w">>, <<LevelKey, "=", "w", "=", "v">> >>}}

(***************************************************************************)
(* The stat files a stats directory may hold.                              *)
(***************************************************************************)
StatsKey == <<"s", "t", "a", "t", "s">>
Leaves == {Null, Num(50), Num(100), Str(<<"s">>)}

\* objects of at most n fields, keys distinct, in every order
ObjsOf(names, vals, n) ==
  {Obj(es) : es \in {q \in SeqsUpTo(names \X vals, n) :
                       \A i, j \in 1..Len(q) : q[i][1] = q[j][1] => i = j}}

FlatDocs(fields, n) == ObjsOf(fields, Leaves, n)
NestedDocs(cates, fields, n) ==
  {Obj(<< <<StatsKey, o>> >>) :
     o \in ObjsOf(cates, ObjsOf(fields, Leaves, n), Cardinality(cates))}

\* two files share the leading segment a, one has b
FileNames == {<<"a", ".", "j">>, <<"a", ".", "k">>, <<"b", ".", "j">>}

\* several files per run, one category, one field name
StatFiles ==
  {IoErr, ParseErr} \cup FlatDocs({<<"j">>}, 1) \cup NestedDocs({<<"c">>}, {<<"j">>}, 1)

\* one file per run, two categories; the field names: the key, a name that
\* holds the key in another case, a name that does not hold it
RichFields == {<<"j">>, <<"x", "J">>, <<"x">>}
RichStatFiles ==
  FlatDocs(RichFields, 2) \cup NestedDocs({<<"c">>, <<"d">>}, RichFields, 1)

(***************************************************************************)
(* Aggregation: main, lines 146-187.                                       *)
(***************************************************************************)
\* rank.entry(k).or_insert((Vec::new(), value.is_number())).0.push((uuid, value))
Record(r, k, uuid, value) ==
  IF k \in DOMAIN r
  THEN [r EXCEPT ![k].vec = Append(@, <<uuid, value>>)]
  ELSE Put(r, k, [vec |-> << <<uuid, value>> >>, num |-> IsNumber(value)])

\* the scan without its break
RECURSIVE ScanExactNoBreak(_, _, _, _)
ScanExactNoBreak(r, cats, uuid, k) ==
  IF cats = <<>> THEN r
  ELSE LET value == Index(Head(cats)[2], k)
       IN IF IsNull(value) THEN ScanExactNoBreak(r, Tail(cats), uuid, k)
          ELSE ScanExactNoBreak(Record(r, k, uuid, value), Tail(cats), uuid, k)

\* exact mode over the categories: skip a category where the key is null,
\* push the first one found and break
RECURSIVE ScanExact(_, _, _, _)
ScanExact(r, cats, uuid, k) ==
  IF cats = <<>> THEN r
  ELSE LET value == Index(Head(cats)[2], k)
       IN IF IsNull(value) THEN ScanExact(r, Tail(cats), uuid, k)
          ELSE Record(r, k, uuid, value)

\* substring mode over the fields of one category
RECURSIVE ScanFields(_, _, _, _, _)
ScanFields(r, fields, cate, uuid, k) ==
  IF fields = <<>> THEN r
  ELSE LET f == Head(fields)[1]
           value == Head(fields)[2]
       IN ScanFields(IF contains(to_lowercase(f), to_lowercase(k))
                     THEN Record(r, CateKey(cate, f), uuid, value)
                     ELSE r,
                     Tail(fields), cate, uuid, k)

\* substring mode over the categories
RECURSIVE ScanSubstr(_, _, _, _)
ScanSubstr(r, cats, uuid, k) ==
  IF cats = <<>> THEN r
  ELSE ScanSubstr(ScanFields(r, Entries(Head(cats)[2]), Head(cats)[1], uuid, k),
                  Tail(cats), uuid, k)

\* flat schema, exact mode
FlatExact(r, json, uuid, k) ==
  LET value == Index(json, k)
  IN IF IsNull(value) THEN r ELSE Record(r, k, uuid, value)

\* flat schema, substring mode
RECURSIVE FlatSubstr(_, _, _, _)
FlatSubstr(r, fields, uuid, k) ==
  IF fields = <<>> THEN r
  ELSE LET f == Head(fields)[1]
           value == Head(fields)[2]
       IN FlatSubstr(IF contains(to_lowercase(f), to_lowercase(k))
                     THEN Record(r, f, uuid, value)
                     ELSE r,
                     Tail(fields), uuid, k)

\* what one parsed stat file adds to rank
Aggregate(r, json, uuid, k, ex) ==
  IF IsObject(Index(json, StatsKey))
  THEN IF ex THEN ScanExact(r, Entries(Index(json, StatsKey)), uuid, k)
       ELSE ScanSubstr(r, Entries(Index(json, StatsKey)), uuid, k)
  ELSE IF ex THEN FlatExact(r, json, uuid, k)
       ELSE FlatSubstr(r, Entries(json), uuid, k)

(***************************************************************************)
(* Presentation: main, lines 193-215.                                      *)
(***************************************************************************)
Min(x, y) == IF x <= y THEN x ELSE y

Perms(n) == {p \in [1..n -> 1..n] : \A i, j \in 1..n : p[i] = p[j] => i = j}

\* the comparator: as_f64().unwrap() of both sides, reversed under inverse
InOrder(x, y, inv) ==
  IF inv THEN as_f64(x[2]).v >= as_f64(y[2]).v
  ELSE as_f64(x[2]).v <= as_f64(y[2]).v

\* the sort with the inverse flag ignored
SortOutcomesAscending(vec, inv) ==
  {s \in {[i \in 1..Len(vec) |-> vec[p[i]]] : p \in Perms(Len(vec))} :
     \A i \in 1..(Len(s) - 1) : InOrder(s[i], s[i + 1], FALSE)}

\* sort_unstable_by: any arrangement in which the comparator finds
\* neighbours in order; entries that compare equal land in either order
SortOutcomes(vec, inv) ==
  {s \in {[i \in 1..Len(vec) |-> vec[p[i]]] : p \in Perms(Len(vec))} :
     \A i \in 1..(Len(s) - 1) : InOrder(s[i], s[i + 1], inv)}

\* unwrap() on None: some entry of a sorted bucket is not a number
SortPanics(vec) ==
  Len(vec) >= 2 /\ \E i \in 1..Len(vec) : ~as_f64(vec[i][2]).some

\* the inverse flag applied to a bucket that is not numeric too
ArrangeReversed(vec, num, inv) ==
  IF num THEN SortOutcomes(vec, inv)
  ELSE IF inv THEN {[i \in 1..Len(vec) |-> vec[Len(vec) + 1 - i]]} ELSE {vec}

\* if num { rank.sort_unstable_by(..) }
Arrange(vec, num, inv) == IF num THEN SortOutcomes(vec, inv) ELSE {vec}

\* the name with or without the uuid, the uuid when there is no name
Prefix(map, uuid, show) ==
  IF uuid \in DOMAIN map
  THEN IF show THEN map[uuid] \o <<"(">> \o uuid \o <<")">> ELSE map[uuid]
  ELSE uuid

\* one line more than the limit
RenderOneMore(vec, map, lim, show) ==
  [i \in 1..Min(lim + 1, Len(vec)) |->
     [idx |-> (i - 1) + 1, prefix |-> Prefix(map, vec[i][1], show), stats |-> vec[i][2]]]

\* rank.iter().enumerate().take(limit): the lines (idx + 1, prefix, stats)
Render(vec, map, lim, show) ==
  [i \in 1..Min(lim, Len(vec)) |->
     [idx |-> (i - 1) + 1, prefix |-> Prefix(map, vec[i][1], show), stats |-> vec[i][2]]]

(***************************************************************************)
(* The run: main.                                                          *)
(***************************************************************************)
\* Args::parse() and the empty table and map
InitWith(keys) ==
  /\ pc = "whitelist"
  /\ exact \in BOOLEAN
  /\ inverse \in BOOLEAN
  /\ show_uuid \in BOOLEAN
  /\ limit \in 1..MaxLimit
  /\ key \in keys
  /\ id_map = EmptyMap
  /\ content = NoFile
  /\ path = [name |-> <<>>, is_dir |-> FALSE]
  /\ nread = 0
  /\ seen = {}
  /\ rank = EmptyMap
  /\ out = EmptyMap

Init == InitWith({<<"j">>})

\* a failed load is reported and the run goes on
LoadWhitelist ==
  /\ pc = "whitelist"
  /\ \E f \in ArrayFiles :
       /\ content' = f
       /\ id_map' = load_whitelist(id_map, f).map
  /\ pc' = "namecache"
  /\ UNCHANGED <<args, path, nread, seen, rank, out>>

LoadUserNameCache ==
  /\ pc = "namecache"
  /\ \E f \in CacheFiles :
       /\ content' = f
       /\ id_map' = load_user_name_cache(id_map, f).map
  /\ pc' = "usercache"
  /\ UNCHANGED <<args, path, nread, seen, rank, out>>

LoadUserName ==
  /\ pc = "usercache"
  /\ \E f \in ArrayFiles :
       /\ content' = f
       /\ id_map' = load_user_name(id_map, f).map
  /\ pc' = "level"
  /\ UNCHANGED <<args, path, nread, seen, rank, out>>

\* no level name: main returns Err
GetLevelName ==
  /\ pc = "level"
  /\ \E f \in PropsFiles :
       /\ content' = f
       /\ pc' = IF get_level_name(f).some THEN "read_dir" ELSE "err_level"
  /\ UNCHANGED <<args, id_map, path, nread, seen, rank, out>>

\* read_dir().expect(..): panics when the directory cannot be read
ReadDir ==
  /\ pc = "read_dir"
  /\ \E ok \in BOOLEAN : pc' = IF ok THEN "scan" ELSE "panic_read_dir"
  /\ UNCHANGED <<args, id_map, content, path, nread, seen, rank, out>>

\* one turn of the loop over the directory: an entry that is an Err or a
\* directory is passed over; a file is opened, read, parsed (`?` returns
\* from main on failure) and aggregated under its leading segment
ProcessEntry(files, max) ==
  /\ pc = "scan"
  /\ nread < max
  /\ nread' = nread + 1
  /\ \/ /\ UNCHANGED <<pc, content, path, seen, rank>>
     \/ \E name \in FileNames \ seen :
          /\ seen' = seen \cup {name}
          /\ \/ /\ path' = [name |-> name, is_dir |-> TRUE]
                /\ UNCHANGED <<pc, content, rank>>
             \/ \E f \in files :
                  /\ path' = [name |-> name, is_dir |-> FALSE]
                  /\ content' = f
                  /\ IF IsErr(f)
                     THEN pc' = "err_stat_file" /\ rank' = rank
                     ELSE /\ pc' = pc
                          /\ rank' = Aggregate(rank, f, LeadingSegment(name), key, exact)
  /\ UNCHANGED <<args, id_map, out>>

\* the directory has no more entries
EndScan ==
  /\ pc = "scan"
  /\ pc' = "present"
  /\ UNCHANGED <<args, id_map, content, path, nread, seen, rank, out>>

\* one turn of the loop over rank, in the map's order: sort when the
\* bucket is numeric, print the header and the first limit lines
PresentBucket ==
  /\ pc = "present"
  /\ \E k \in DOMAIN rank \ DOMAIN out :
       IF rank[k].num /\ SortPanics(rank[k].vec)
       THEN pc' = "panic_sort" /\ out' = out
       ELSE /\ pc' = pc
            /\ \E s \in Arrange(rank[k].vec, rank[k].num, inverse) :
                 out' = Put(out, k, Render(s, id_map, limit, show_uuid))
  /\ UNCHANGED <<args, id_map, content, path, nread, seen, rank>>

\* every bucket printed: Ok(())
Finish ==
  /\ pc = "present"
  /\ DOMAIN out = DOMAIN rank
  /\ pc' = "done"
  /\ UNCHANGED <<args, id_map, content, path, nread, seen, rank, out>>

Load == LoadWhitelist \/ LoadUserNameCache \/ LoadUserName
Present == EndScan \/ PresentBucket \/ Finish

Next ==
  \/ Load
  \/ GetLevelName
  \/ ReadDir
  \/ ProcessEntry(StatFiles, MaxFiles)
  \/ Present

Spec == Init /\ [][Next]_vars

\* a directory of one file, drawn from the richer family
InitScan == InitWith({<<"j">>, <<"J">>})

NextScan ==
  \/ Load
  \/ GetLevelName
  \/ ReadDir
  \/ ProcessEntry(RichStatFiles, 1)
  \/ Present

ScanSpec == InitScan /\ [][NextScan]_vars

(***************************************************************************)
(* Properties.                                                             *)
(***************************************************************************)
Failed == {"err_level", "panic_read_dir", "err_stat_file", "panic_sort"}

\* the step read and handled a stat file
FileStep == pc = "scan" /\ seen' # seen /\ ~path'.is_dir

\* s lists its entries in the order the inverse flag asks for
Monotonic(s, inv) ==
  \A i \in 1..(Len(s) - 1) :
    IF inv THEN s[i][2].n >= s[i + 1][2].n ELSE s[i][2].n <= s[i + 1][2].n

\* the lines are the first lines of the entries s, ranks counted from 1
LinesOf(lines, s) ==
  /\ Len(lines) <= Len(s)
  /\ \A i \in 1..Len(lines) :
       /\ lines[i].stats = s[i][2]
       /\ lines[i].prefix = Prefix(id_map, s[i][1], show_uuid)

Permuted(vec, p) == [i \in 1..Len(vec) |-> vec[p[i]]]

\* C1: a stat file that cannot be opened, read or parsed is passed over and
\* the run goes on; the run never ends because of a stat file.
C1_BadStatFileSkipped ==
  (nread > 0 /\ IsErr(content)) => pc \notin Failed

\* C2: no bucket holds an observation whose value is null, whatever the
\* selection mode and the schema.
C2_NoNullObservation ==
  \A k \in DOMAIN rank :
    \A i \in 1..Len(rank[k].vec) : ~IsNull(rank[k].vec[i][2])

\* C3: the lines printed for a numeric bucket are the first lines of a
\* rearrangement of its observations that is non-decreasing in value, or
\* non-increasing under the inverse flag; rank 1 is a smallest (largest) value.
C3_NumericMonotonic ==
  \A k \in DOMAIN out :
    rank[k].num =>
      /\ \E p \in Perms(Len(rank[k].vec)) :
           /\ Monotonic(Permuted(rank[k].vec, p), inverse)
           /\ LinesOf(out[k], Permuted(rank[k].vec, p))
      /\ \A i \in 1..(Len(out[k]) - 1) :
           IF inverse THEN out[k][i].stats.n >= out[k][i + 1].stats.n
           ELSE out[k][i].stats.n <= out[k][i + 1].stats.n

\* values 100 then 50, inverse off: rank 1 is the one with 50
C3_Witness ==
  \E k \in DOMAIN out :
    /\ rank[k].num /\ ~inverse
    /\ Len(rank[k].vec) = 2
    /\ rank[k].vec[1][2] = Num(100) /\ rank[k].vec[2][2] = Num(50)
    /\ Len(out[k]) >= 1 /\ out[k][1].stats = Num(50)
    /\ out[k][1].prefix = Prefix(id_map, rank[k].vec[2][1], show_uuid)

\* C4: the lines printed for a non-numeric bucket follow the order of
\* insertion, with the inverse flag set or not; a file's observations are
\* appended behind those of the files read before it.
C4_InsertionOrder ==
  /\ [](\A k \in DOMAIN out : ~rank[k].num => LinesOf(out[k], rank[k].vec))
  /\ [][\A k \in DOMAIN rank :
          /\ k \in DOMAIN rank'
          /\ Len(rank'[k].vec) >= Len(rank[k].vec)
          /\ SubSeq(rank'[k].vec, 1, Len(rank[k].vec)) = rank[k].vec
          /\ \A i \in (Len(rank[k].vec) + 1)..Len(rank'[k].vec) :
               rank'[k].vec[i][1] = LeadingSegment(path'.name)]_vars

\* a string then a number under inverse: printed in that order
C4_Witness ==
  \E k \in DOMAIN out :
    /\ ~rank[k].num /\ inverse
    /\ Len(rank[k].vec) = 2 /\ Len(out[k]) = 2
    /\ rank[k].vec[1][2] = Str(<<"s">>) /\ rank[k].vec[2][2] = Num(50)
    /\ rank[k].vec[1][1] # rank[k].vec[2][1]
    /\ out[k][1].stats = Str(<<"s">>) /\ out[k][2].stats = Num(50)

\* the categories of a nested stat file in which the key has a value
HitsOf(json, k) ==
  LET cats == Entries(Index(json, StatsKey))
  IN {i \in 1..Len(cats) : ~IsNull(Index(cats[i][2], k))}

\* C5: in exact mode a nested stat file adds one observation to the bucket
\* of the key, the value of the first category where the key is not null,
\* and nothing else; it adds nothing when no category has the key.
C5_FirstCategoryOnly ==
  [][(FileStep /\ exact /\ ~IsErr(content') /\ IsObject(Index(content', StatsKey))) =>
       LET cats == Entries(Index(content', StatsKey))
           hits == HitsOf(content', key)
           first == CHOOSE i \in hits : \A j \in hits : i <= j
           before == IF key \in DOMAIN rank THEN rank[key].vec ELSE <<>>
       IN IF hits = {} THEN rank' = rank
          ELSE /\ DOMAIN rank' = DOMAIN rank \cup {key}
               /\ \A k \in DOMAIN rank : k # key => rank'[k] = rank[k]
               /\ rank'[key].vec =
                    Append(before, <<LeadingSegment(path'.name),
                                     Index(cats[first][2], key)>>)]_vars

\* the key is null in the first category and has different values in the
\* second and the third place it could be found: one observation, the first
C5_Witness ==
  /\ exact /\ nread = 1 /\ ~path.is_dir
  /\ IsObject(Index(content, StatsKey))
  /\ LET cats == Entries(Index(content, StatsKey))
     IN /\ Len(cats) = 2
        /\ HitsOf(content, key) = {1, 2}
        /\ Index(cats[1][2], key) # Index(cats[2][2], key)
        /\ key \in DOMAIN rank
        /\ rank[key].vec = << <<LeadingSegment(path.name), Index(cats[1][2], key)>> >>

\* a first category without the key does not stop the scan
C5_WitnessSkip ==
  /\ exact /\ nread = 1 /\ ~path.is_dir
  /\ IsObject(Index(content, StatsKey))
  /\ LET cats == Entries(Index(content, StatsKey))
     IN /\ Len(cats) = 2
        /\ HitsOf(content, key) = {2}
        /\ key \in DOMAIN rank
        /\ rank[key].vec = << <<LeadingSegment(path.name), Index(cats[2][2], key)>> >>

\* C6: no bucket holds two observations with the same identifier.
C6_NoDuplicateIdentifier ==
  \A k \in DOMAIN rank :
    \A i, j \in 1..Len(rank[k].vec) :
      rank[k].vec[i][1] = rank[k].vec[j][1] => i = j

\* a member of whitelist.json or usercache.json without a string uuid or name
Malformed(m) == ~as_str(Index(m, UuidKey)).some \/ ~as_str(Index(m, NameKey)).some

\* the load of this file returns Err
LoadFails(file) ==
  \/ IsErr(file)
  \/ \E i \in 1..Len(Members(file)) : Malformed(Members(file)[i])
  \/ \E i \in 1..Len(Entries(file)) : ~as_str(Entries(file)[i][2]).some

\* C7: a whitelist with a member that lacks a string uuid or name leaves no
\* entry in the table, the members before that one included.
C7_WhitelistDiscarded ==
  (pc = "namecache" /\ LoadFails(content)) => id_map = EmptyMap

\* the uuid -> name pairs of an identity file, in file order
PairsOf(file) ==
  IF file.t = "arr"
  THEN [i \in 1..Len(file.a) |-> <<as_str(Index(file.a[i], UuidKey)).v,
                                   as_str(Index(file.a[i], NameKey)).v>>]
  ELSE [i \in 1..Len(Entries(file)) |-> <<Entries(file)[i][1],
                                          as_str(Entries(file)[i][2]).v>>]

\* the table after a source that loads is layered on it: the whitelist
\* fills the identifiers not yet present, the other two overwrite
Layered(old, file, fill_only) ==
  IF LoadFails(file) THEN old
  ELSE LET ps == PairsOf(file)
           ids == {ps[i][1] : i \in 1..Len(ps)}
           at(u) == {i \in 1..Len(ps) : ps[i][1] = u}
           firstOf(u) == ps[CHOOSE i \in at(u) : \A j \in at(u) : i <= j][2]
           lastOf(u) == ps[CHOOSE i \in at(u) : \A j \in at(u) : i >= j][2]
       IN [u \in DOMAIN old \cup ids |->
             IF fill_only
             THEN IF u \in DOMAIN old THEN old[u] ELSE firstOf(u)
             ELSE IF u \in ids THEN lastOf(u) ELSE old[u]]

\* C8: each source is layered on the table in the order whitelist, name
\* cache, user registry: the later source wins, the whitelist never replaces
\* an entry, and a source whose load fails leaves every entry that was in
\* the table in it, under the name it had.
C8_Precedence ==
  [][(pc \in {"whitelist", "namecache", "usercache"}) =>
       IF LoadFails(content')
       THEN \A u \in DOMAIN id_map : u \in DOMAIN id_map' /\ id_map'[u] = id_map[u]
       ELSE id_map' = Layered(id_map, content', pc = "whitelist")]_vars

\* C9: every bucket printed has min(limit, size) lines, ranked 1, 2, ..,
\* the first entries of the bucket as sorted (as inserted when the bucket is
\* not numeric); a run that ends well printed every bucket.
C9_Truncation ==
  /\ \A k \in DOMAIN out :
       /\ Len(out[k]) = Min(limit, Len(rank[k].vec))
       /\ \A i \in 1..Len(out[k]) : out[k][i].idx = i
       /\ \E p \in Perms(Len(rank[k].vec)) :
            /\ IF rank[k].num THEN Monotonic(Permuted(rank[k].vec, p), inverse)
               ELSE \A i \in 1..Len(rank[k].vec) : p[i] = i
            /\ LinesOf(out[k], Permuted(rank[k].vec, p))
  /\ pc = "done" => DOMAIN out = DOMAIN rank

\* two observations, limit 1: one line, rank 1, the smaller value, which
\* was inserted second
C9_Witness ==
  \E k \in DOMAIN out :
    /\ limit = 1 /\ rank[k].num /\ ~inverse
    /\ Len(rank[k].vec) = 2
    /\ rank[k].vec[1][2] = Num(100) /\ rank[k].vec[2][2] = Num(50)
    /\ Len(out[k]) = 1 /\ out[k][1].idx = 1 /\ out[k][1].stats = Num(50)

\* C10: the numeric flag of a bucket is the one of its first value, and a
\* bucket that holds a later value that is no number is still printed,
\* unsorted: presentation never fails on it.
C10_MixedBucketPrinted ==
  /\ \A k \in DOMAIN rank : rank[k].num = IsNumber(rank[k].vec[1][2])
  /\ pc # "panic_sort"
  /\ \A k \in DOMAIN out :
       (\E i \in 1..Len(rank[k].vec) : ~IsNumber(rank[k].vec[i][2])) =>
         LinesOf(out[k], rank[k].vec)

====
